---- MODULE Spec2Model ----
(***************************************************************************)
(* Referral System API (src/main.py): the users and referrals tables, the *)
(* HTTP handlers that read and write them, and the same handlers split     *)
(* into their SQL statements for requests that overlap.                    *)
(*                                                                         *)
(* A table is the sequence of its rows in insertion order; a row's         *)
(* autoincrement primary key is its index.  The date column of a referral  *)
(* is left out: no handler reads it.                                       *)
(***************************************************************************)
EXTENDS Integers, Sequences, FiniteSets, TLC

VARIABLES
    users,          \* table users: rows [tg_id, username, ref_link, points]
    referrals,      \* table referrals: rows [user_tg_id, friend_tg_id, points]
    fkEnforced,     \* whether the store behind DATABASE_URL enforces ForeignKey
    pointsSet,      \* history: some update_user_points call has overwritten a balance
    last,           \* the last completed request of the sequential client, with its response
    sess            \* the overlapping requests: per worker, its request and position

vars == <<users, referrals, fkEnforced, pointsSet, last, sess>>

-----------------------------------------------------------------------------
(* Bounds and input sets *)

MaxReferrals == 2
NumProcs == 2

TgIds == {"100", "200"}
Usernames == {"alice", "bob"}
PointsInputs == {50}
\* overlapping requests: referrals of referrer "100", first contacts of identity "200"
ConcReferrers == {"100"}
ConcFriends == {"200", "300"}
ConcNewIds == {"200"}
Procs == 1..NumProcs

ReferralPoints == 100

-----------------------------------------------------------------------------
(* Pure helpers *)

RefLink(tg_id) == "https://t.me/tma123_bot?startapp=" \o tg_id

\* the link update_referral_link requests post
LinkInputs == {"https://t.me/share/custom"}

Min(S) == CHOOSE m \in S : \A n \in S : m <= n

\* db.query(User).filter(User.tg_id == tg_id).first(): the row's index, 0 for None
QueryUser(tg_id) ==
    LET hits == {i \in DOMAIN users : users[i].tg_id = tg_id}
    IN  IF hits = {} THEN 0 ELSE Min(hits)

\* db.query(Referral).filter(user_tg_id == a, friend_tg_id == b).first()
QueryReferral(a, b) ==
    LET hits == {i \in DOMAIN referrals :
                    referrals[i].user_tg_id = a /\ referrals[i].friend_tg_id = b}
    IN  IF hits = {} THEN 0 ELSE Min(hits)

\* users.tg_id declared without unique=True
TgIdUnique_Off(tbl) == TRUE

\* tg_id = Column(String, unique=True)
TgIdUnique(tbl) ==
    \A i, j \in DOMAIN tbl : i # j => tbl[i].tg_id # tbl[j].tg_id

\* users.ref_link declared without unique=True
RefLinkUnique_Off(tbl) == TRUE

\* ref_link = Column(String, unique=True)
RefLinkUnique(tbl) ==
    \A i, j \in DOMAIN tbl : i # j => tbl[i].ref_link # tbl[j].ref_link

\* the constraints the store checks when a flush writes table users
UserConstraintsOK(tbl) == TgIdUnique(tbl) /\ RefLinkUnique(tbl)

\* ForeignKey("users.tg_id") on both referral columns, where the store enforces it
ReferralFkOK(row, tbl) ==
    fkEnforced =>
        /\ \E i \in DOMAIN tbl : tbl[i].tg_id = row.user_tg_id
        /\ \E i \in DOMAIN tbl : tbl[i].tg_id = row.friend_tg_id

NewUser(tg_id, username) ==
    [tg_id |-> tg_id, username |-> username, ref_link |-> RefLink(tg_id), points |-> 0]

NewReferral(a, b) ==
    [user_tg_id |-> a, friend_tg_id |-> b, points |-> ReferralPoints]

Response(op, tg_id, arg, status, body) ==
    [op |-> op, tg_id |-> tg_id, arg |-> arg, status |-> status, body |-> body]

NotFound == [detail |-> "User not found"]
ServerError == [detail |-> "Internal Server Error"]
AlreadyExists == [detail |-> "Referral already exists"]

NoSession == [pc |-> "idle", op |-> "none", tg_id |-> "", arg |-> "",
              found |-> 0, idx |-> 0, pts |-> 0, status |-> 0]

-----------------------------------------------------------------------------
(* The handlers, one request at a time *)

\* create_user as an upsert: an existing user's username is overwritten
CreateUser_Upsert(tg_id, username) ==
    LET i == QueryUser(tg_id)
        tbl == IF i # 0 THEN [users EXCEPT ![i].username = username]
               ELSE Append(users, NewUser(tg_id, username))
        k == IF i # 0 THEN i ELSE Len(tbl)
    IN  /\ IF UserConstraintsOK(tbl)
           THEN /\ users' = tbl
                /\ last' = Response("create_user", tg_id, username, 200, tbl[k])
           ELSE /\ last' = Response("create_user", tg_id, username, 500, ServerError)
                /\ UNCHANGED users
        /\ UNCHANGED <<referrals, fkEnforced, pointsSet, sess>>

\* POST /users/
CreateUser(tg_id, username) ==
    LET i == QueryUser(tg_id)
        tbl == Append(users, NewUser(tg_id, username))
    IN  /\ IF i # 0
           THEN /\ last' = Response("create_user", tg_id, username, 200, users[i])
                /\ UNCHANGED users
           ELSE IF UserConstraintsOK(tbl)
           THEN /\ users' = tbl
                /\ last' = Response("create_user", tg_id, username, 200, tbl[Len(tbl)])
           ELSE /\ last' = Response("create_user", tg_id, username, 500, ServerError)
                /\ UNCHANGED users
        /\ UNCHANGED <<referrals, fkEnforced, pointsSet, sess>>

\* GET /users/{tg_id}
GetUser(tg_id) ==
    LET i == QueryUser(tg_id)
    IN  /\ last' = IF i = 0
                   THEN Response("get_user", tg_id, "", 404, NotFound)
                   ELSE Response("get_user", tg_id, "", 200, users[i])
        /\ UNCHANGED <<users, referrals, fkEnforced, pointsSet, sess>>

\* create_referral without the lookup of the pair: every call inserts and credits
CreateReferral_NoLookup(a, b) ==
    LET row == NewReferral(a, b)
        i == QueryUser(a)
    IN  /\ Len(referrals) < MaxReferrals
        /\ IF ReferralFkOK(row, users)
           THEN /\ referrals' = Append(referrals, row)
                /\ users' = IF i = 0 THEN users
                            ELSE [users EXCEPT ![i].points = users[i].points + 100]
                /\ last' = Response("create_referral", a, b, 200, row)
           ELSE /\ last' = Response("create_referral", a, b, 500, ServerError)
                /\ UNCHANGED <<users, referrals>>
        /\ UNCHANGED <<fkEnforced, pointsSet, sess>>

\* POST /referrals/
CreateReferral(a, b) ==
    LET row == NewReferral(a, b)
        i == QueryUser(a)
        credited == IF i = 0 THEN users
                    ELSE [users EXCEPT ![i].points = users[i].points + 100]
    IN  /\ IF QueryReferral(a, b) # 0
           THEN /\ last' = Response("create_referral", a, b, 400, AlreadyExists)
                /\ UNCHANGED <<users, referrals>>
           ELSE /\ Len(referrals) < MaxReferrals
                /\ IF ReferralFkOK(row, users)
                   THEN /\ referrals' = Append(referrals, row)
                        /\ users' = credited
                        /\ last' = Response("create_referral", a, b, 200, row)
                   ELSE /\ last' = Response("create_referral", a, b, 500, ServerError)
                        /\ UNCHANGED <<users, referrals>>
        /\ UNCHANGED <<fkEnforced, pointsSet, sess>>

\* GET /users/{tg_id}/referral_link
GetReferralLink(tg_id) ==
    LET i == QueryUser(tg_id)
    IN  /\ last' = IF i = 0
                   THEN Response("get_referral_link", tg_id, "", 404, NotFound)
                   ELSE Response("get_referral_link", tg_id, "", 200,
                                 [referral_link |-> users[i].ref_link])
        /\ UNCHANGED <<users, referrals, fkEnforced, pointsSet, sess>>

\* POST /users/{tg_id}/referral_link
UpdateReferralLink(tg_id, ref_link) ==
    LET i == QueryUser(tg_id)
        created == Append(users, NewUser(tg_id, ""))
        \* the table once get_or_create_user has returned, and the user's row
        tbl == IF i # 0 THEN users ELSE created
        k == IF i # 0 THEN i ELSE Len(created)
        updated == [tbl EXCEPT ![k].ref_link = ref_link]
    IN  /\ IF i = 0 /\ ~UserConstraintsOK(created)
           THEN /\ last' = Response("update_referral_link", tg_id, ref_link, 500, ServerError)
                /\ UNCHANGED users
           ELSE IF UserConstraintsOK(updated)
           THEN /\ users' = updated
                /\ last' = Response("update_referral_link", tg_id, ref_link, 200,
                                    [message |-> "Referral link updated successfully"])
           ELSE /\ users' = tbl
                /\ last' = Response("update_referral_link", tg_id, ref_link, 500, ServerError)
        /\ UNCHANGED <<referrals, fkEnforced, pointsSet, sess>>

\* GET /users/{tg_id}/points
GetUserPoints(tg_id) ==
    LET i == QueryUser(tg_id)
    IN  /\ last' = IF i = 0
                   THEN Response("get_user_points", tg_id, "", 404, NotFound)
                   ELSE Response("get_user_points", tg_id, "", 200,
                                 [points |-> users[i].points])
        /\ UNCHANGED <<users, referrals, fkEnforced, pointsSet, sess>>

\* update_user_points through get_or_create_user: a missing user is created
UpdateUserPoints_Upsert(tg_id, points) ==
    LET i == QueryUser(tg_id)
        tbl == IF i # 0 THEN users ELSE Append(users, NewUser(tg_id, ""))
        k == IF i # 0 THEN i ELSE Len(tbl)
    IN  /\ IF UserConstraintsOK(tbl)
           THEN /\ users' = [tbl EXCEPT ![k].points = points]
                /\ pointsSet' = TRUE
                /\ last' = Response("update_user_points", tg_id, "", 200,
                                    [points |-> points])
           ELSE /\ last' = Response("update_user_points", tg_id, "", 500, ServerError)
                /\ UNCHANGED <<users, pointsSet>>
        /\ UNCHANGED <<referrals, fkEnforced, sess>>

\* POST /users/{tg_id}/points
UpdateUserPoints(tg_id, points) ==
    LET i == QueryUser(tg_id)
    IN  /\ IF i = 0
           THEN /\ last' = Response("update_user_points", tg_id, "", 404, NotFound)
                /\ UNCHANGED <<users, pointsSet>>
           ELSE /\ users' = [users EXCEPT ![i].points = points]
                /\ pointsSet' = TRUE
                /\ last' = Response("update_user_points", tg_id, "", 200,
                                    [points |-> points])
        /\ UNCHANGED <<referrals, fkEnforced, sess>>

-----------------------------------------------------------------------------

Init ==
    /\ users = <<>>
    /\ referrals = <<>>
    /\ fkEnforced \in BOOLEAN
    /\ pointsSet = FALSE
    /\ last = Response("none", "", "", 0, [detail |-> ""])
    /\ sess = [p \in Procs |-> NoSession]

Next ==
    \/ \E t \in TgIds, n \in Usernames : CreateUser(t, n)
    \/ \E t \in TgIds : GetUser(t)
    \/ \E a \in TgIds, b \in TgIds : CreateReferral(a, b)
    \/ \E t \in TgIds : GetReferralLink(t)
    \/ \E t \in TgIds, l \in LinkInputs : UpdateReferralLink(t, l)
    \/ \E t \in TgIds : GetUserPoints(t)
    \/ \E t \in TgIds, v \in PointsInputs : UpdateUserPoints(t, v)

Spec == Init /\ [][Next]_vars

-----------------------------------------------------------------------------
(* The handlers as overlapping requests.  One step is one round trip to    *)
(* the store: a SELECT, or the flush and COMMIT of db.commit().  Every     *)
(* statement reads the rows committed so far (READ COMMITTED, the default  *)
(* of the stores the URL can name); an ORM object keeps the column values  *)
(* it was loaded with until its session commits.                           *)

Finish(p, status) ==
    sess' = [sess EXCEPT ![p].pc = "done", ![p].status = status]

\* get_or_create_user, line 91: the request arrives and looks the user up
GocQuery(p, op, tg_id, arg) ==
    LET i == QueryUser(tg_id)
        s == [NoSession EXCEPT !.op = op, !.tg_id = tg_id, !.arg = arg,
                               !.found = i, !.idx = i]
    IN  /\ sess[p].pc = "idle"
        /\ sess' = [sess EXCEPT ![p] =
                      IF i = 0 THEN [s EXCEPT !.pc = "insert"]
                      ELSE IF op = "create_user"
                      THEN [s EXCEPT !.pc = "done", !.status = 200]
                      ELSE [s EXCEPT !.pc = "setlink"]]
        /\ UNCHANGED <<users, referrals, fkEnforced, pointsSet, last>>

\* get_or_create_user, lines 93-97: INSERT the new user and COMMIT
GocInsert(p) ==
    LET s == sess[p]
        tbl == Append(users,
                      NewUser(s.tg_id, IF s.op = "create_user" THEN s.arg ELSE ""))
    IN  /\ s.pc = "insert"
        /\ IF UserConstraintsOK(tbl)
           THEN /\ users' = tbl
                /\ sess' = [sess EXCEPT ![p] =
                              IF s.op = "create_user"
                              THEN [s EXCEPT !.pc = "done", !.status = 200, !.idx = Len(tbl)]
                              ELSE [s EXCEPT !.pc = "setlink", !.idx = Len(tbl)]]
           ELSE /\ Finish(p, 500)
                /\ UNCHANGED users
        /\ UNCHANGED <<referrals, fkEnforced, pointsSet, last>>

\* update_referral_link, lines 169-170: UPDATE the user's ref_link and COMMIT
SetLinkCommit(p) ==
    LET s == sess[p]
        tbl == [users EXCEPT ![s.idx].ref_link = s.arg]
    IN  /\ s.pc = "setlink"
        /\ IF UserConstraintsOK(tbl)
           THEN /\ users' = tbl
                /\ Finish(p, 200)
           ELSE /\ Finish(p, 500)
                /\ UNCHANGED users
        /\ UNCHANGED <<referrals, fkEnforced, pointsSet, last>>

\* create_referral, lines 135-141: the request arrives and looks the pair up
CrQuery(p, a, b) ==
    LET s == [NoSession EXCEPT !.op = "create_referral", !.tg_id = a, !.arg = b]
    IN  /\ sess[p].pc = "idle"
        /\ sess' = [sess EXCEPT ![p] =
                      IF QueryReferral(a, b) # 0
                      THEN [s EXCEPT !.pc = "done", !.status = 400]
                      ELSE [s EXCEPT !.pc = "readuser"]]
        /\ UNCHANGED <<users, referrals, fkEnforced, pointsSet, last>>

\* create_referral, line 151: load the referrer's row
CrReadUser(p) ==
    LET s == sess[p]
        i == QueryUser(s.tg_id)
    IN  /\ s.pc = "readuser"
        /\ sess' = [sess EXCEPT ![p].pc = "commit", ![p].found = i, ![p].idx = i,
                                ![p].pts = IF i = 0 THEN 0 ELSE users[i].points]
        /\ UNCHANGED <<users, referrals, fkEnforced, pointsSet, last>>

\* create_referral, lines 152-155: points += 100 on the loaded object, then the
\* flush writes INSERT referrals and UPDATE users SET points = <new value>, and COMMIT
CrCommit(p) ==
    LET s == sess[p]
        row == NewReferral(s.tg_id, s.arg)
    IN  /\ s.pc = "commit"
        /\ IF ReferralFkOK(row, users)
           THEN /\ referrals' = Append(referrals, row)
                /\ users' = IF s.idx = 0 THEN users
                            ELSE [users EXCEPT ![s.idx].points = s.pts + 100]
                /\ Finish(p, 200)
           ELSE /\ Finish(p, 500)
                /\ UNCHANGED <<users, referrals>>
        /\ UNCHANGED <<fkEnforced, pointsSet, last>>

\* the users registered through POST /users/ before the overlapping requests start
Registered == <<NewUser("100", "alice"), NewUser("200", "alice"), NewUser("300", "alice")>>

InitConc ==
    /\ \E n \in 0..Len(Registered) : users = SubSeq(Registered, 1, n)
    /\ referrals = <<>>
    /\ fkEnforced \in BOOLEAN
    /\ pointsSet = FALSE
    /\ last = Response("none", "", "", 0, [detail |-> ""])
    /\ sess = [p \in Procs |-> NoSession]

NextConc ==
    \E p \in Procs :
        \/ \E t \in ConcNewIds, n \in Usernames : GocQuery(p, "create_user", t, n)
        \/ \E t \in ConcNewIds, l \in LinkInputs : GocQuery(p, "update_referral_link", t, l)
        \/ GocInsert(p)
        \/ SetLinkCommit(p)
        \/ \E a \in ConcReferrers, b \in ConcFriends : CrQuery(p, a, b)
        \/ CrReadUser(p)
        \/ CrCommit(p)

SpecConc == InitConc /\ [][NextConc]_vars

-----------------------------------------------------------------------------
(* Vocabulary of the properties *)

HasUser(tbl, t) == \E i \in DOMAIN tbl : tbl[i].tg_id = t

\* the balance of identity t in table tbl, 0 while t has no row
Balance(tbl, t) ==
    LET hits == {i \in DOMAIN tbl : tbl[i].tg_id = t}
    IN  IF hits = {} THEN 0 ELSE tbl[Min(hits)].points

CountReferrals(tbl, a, b) ==
    Cardinality({i \in DOMAIN tbl : tbl[i].user_tg_id = a /\ tbl[i].friend_tg_id = b})

RECURSIVE SumPoints(_, _)
\* the sum of points over the rows of tbl whose referrer is t
SumPoints(tbl, t) ==
    IF tbl = <<>> THEN 0
    ELSE (IF Head(tbl).user_tg_id = t THEN Head(tbl).points ELSE 0) + SumPoints(Tail(tbl), t)

\* no two rows of tbl share a tg_id / a ref_link
OneRowPerTgId(tbl) == \A i \in DOMAIN tbl : \A j \in DOMAIN tbl : tbl[i].tg_id = tbl[j].tg_id => i = j
OneRowPerLink(tbl) == \A i \in DOMAIN tbl : \A j \in DOMAIN tbl : tbl[i].ref_link = tbl[j].ref_link => i = j

\* the step completes the sequential request op(t, ...)
Completes(op, t) == last'.op = op /\ last'.tg_id = t

DbUnchanged == users' = users /\ referrals' = referrals

\* the step appends a referral row / raises some user's balance by the referral points
RowAdded == Len(referrals') > Len(referrals)
Credited ==
    \E t \in TgIds : HasUser(users', t) /\ Balance(users', t) = Balance(users, t) + ReferralPoints

\* worker p's request went through the store and is answered
Done(p, op) == sess[p].pc = "done" /\ sess[p].op = op

-----------------------------------------------------------------------------
(* C1: create_referral(A,B) called twice leaves exactly one row for (A,B)  *)
(* and the referrer's balance raised by 100 in total.  Stated per call:    *)
(* the call that finds no row for the pair ends with one row and the       *)
(* referrer holding 100 more; the call that finds a row leaves one row and *)
(* the balance as it was.                                                  *)
C1_TwiceOneRowOneCredit ==
    [][\A a \in TgIds, b \in TgIds :
         (Completes("create_referral", a) /\ last'.arg = b) =>
            /\ CountReferrals(referrals', a, b) = 1
            /\ IF QueryReferral(a, b) = 0
               THEN HasUser(users', a) /\ Balance(users', a) = Balance(users, a) + ReferralPoints
               ELSE Balance(users', a) = Balance(users, a)]_vars

C3_ConcurrentOneRowOneCredit ==
    \A a \in ConcReferrers, b \in ConcFriends :
        (/\ \A p \in Procs : Done(p, "create_referral") /\ sess[p].tg_id = a /\ sess[p].arg = b
         /\ HasUser(users, a) /\ HasUser(users, b))
        => /\ CountReferrals(referrals, a, b) = 1
           /\ Balance(users, a) = ReferralPoints

(* C4: the referral insert and the balance credit are atomic: a            *)
(* create_referral call adds a row exactly when it raises a user's balance *)
(* by the row's points.                                                    *)
C4_InsertAndCreditAtomic ==
    [][last'.op = "create_referral" => (RowAdded <=> Credited)]_vars

(* C5: while no update_user_points call has been made, every user's points *)
(* equal the sum of points over the referral rows naming it as referrer.   *)
C5_PointsEqualReferralSum ==
    ~pointsSet =>
        \A i \in DOMAIN users : users[i].points = SumPoints(referrals, users[i].tg_id)

(* C6: create_user for an identity that already has a user returns that    *)
(* record as stored (not the display name supplied) and writes nothing;    *)
(* two successive create_user calls for one identity return the same       *)
(* identity and referral link.                                             *)
C6_GetOrCreateIdempotent ==
    [][\A t \in TgIds :
         /\ (Completes("create_user", t) /\ QueryUser(t) # 0) =>
               /\ last'.status = 200
               /\ last'.body = users[QueryUser(t)]
               /\ DbUnchanged
         /\ (Completes("create_user", t) /\ last.op = "create_user" /\ last.tg_id = t
               /\ last.status = 200) =>
               /\ last'.status = 200
               /\ last'.body.tg_id = last.body.tg_id
               /\ last'.body.ref_link = last.body.ref_link]_vars

C6_Witness ==
    /\ last.op = "create_user"
    /\ last.status = 200
    /\ last.body.username # last.arg
    /\ referrals # <<>>

(* C7: get_user, get_user_points, get_referral_link and update_user_points *)
(* for an identity without a user answer 404 "User not found" and change   *)
(* neither table.                                                          *)
C7_NotFoundNoWrite ==
    [][\A t \in TgIds :
         (/\ last'.op \in {"get_user", "get_user_points", "get_referral_link",
                           "update_user_points"}
          /\ last'.tg_id = t
          /\ QueryUser(t) = 0) =>
            /\ last'.status = 404
            /\ last'.body = NotFound
            /\ DbUnchanged]_vars

C7_Witness ==
    /\ last.op = "update_user_points"
    /\ last.status = 404
    /\ users # <<>>

(* C8 as stated: no two users hold the same ref_link, and every user's     *)
(* ref_link is the link derived from its own identity.                     *)
C8_LinkDerivedFromIdentity ==
    /\ OneRowPerLink(users)
    /\ \A i \in DOMAIN users : users[i].ref_link = RefLink(users[i].tg_id)

(* C8 amended: no two users hold the same ref_link; a user is created with *)
(* the link derived from its own identity, and its ref_link changes only   *)
(* when update_referral_link for that identity stores the link posted.     *)
C8_LinkUniqueAndSetOnlyByUpdate ==
    [][/\ OneRowPerLink(users')
       /\ \A i \in DOMAIN users' :
            IF i \notin DOMAIN users
            THEN \/ users'[i].ref_link = RefLink(users'[i].tg_id)
                 \/ (Completes("update_referral_link", users'[i].tg_id)
                       /\ users'[i].ref_link = last'.arg)
            ELSE users'[i].ref_link # users[i].ref_link =>
                    /\ Completes("update_referral_link", users[i].tg_id)
                    /\ users'[i].ref_link = last'.arg]_vars

C8_Witness ==
    /\ Len(users) = 2
    /\ \E i \in DOMAIN users : users[i].ref_link # RefLink(users[i].tg_id)

(* C9: under overlapping first-contact requests, table users never holds   *)
(* two rows with one tg_id, and a first-contact request that did not       *)
(* insert its row has failed with 500.                                     *)
C9_OneUserPerTgId ==
    /\ OneRowPerTgId(users)
    /\ \A p \in Procs :
          (/\ sess[p].op \in {"create_user", "update_referral_link"}
           /\ sess[p].found = 0
           /\ sess[p].pc \in {"setlink", "done"})
          => \/ sess[p].idx # 0 /\ users[sess[p].idx].tg_id = sess[p].tg_id
             \/ sess[p].idx = 0 /\ sess[p].pc = "done" /\ sess[p].status = 500

C9_Witness ==
    \E p \in Procs, q \in Procs :
        /\ p # q
        /\ Done(p, "create_user") /\ sess[p].found = 0 /\ sess[p].status = 500
        /\ sess[q].found = 0 /\ sess[q].idx # 0 /\ sess[q].tg_id = sess[p].tg_id

(* C10: when overlapping create_referral(A,B) and create_referral(A,C),    *)
(* B # C, for a registered A have both committed and no other request      *)
(* names A as referrer, A's balance is 200 above its starting value of 0.  *)
C10_NoLostCredit ==
    \A p \in Procs, q \in Procs :
        (/\ p # q
         /\ Done(p, "create_referral") /\ sess[p].status = 200
         /\ Done(q, "create_referral") /\ sess[q].status = 200
         /\ sess[p].tg_id = sess[q].tg_id
         /\ sess[p].arg # sess[q].arg
         /\ \A r \in Procs \ {p, q} : sess[r].op # "create_referral"
         /\ HasUser(users, sess[p].tg_id))
        => Balance(users, sess[p].tg_id) = 2 * ReferralPoints

====
